---- MODULE Spec2Model ----
(***************************************************************************)
(* muda-win: the process-wide menu event sink (src/src/lib.rs) and the     *)
(* root Menu container with its window attachments (src/src/menu.rs).      *)
(*                                                                         *)
(* The event sink is modelled from lib.rs.  Menu's public methods are      *)
(* modelled from menu.rs; each of them delegates to platform_impl::Menu,   *)
(* which is not part of the sources at hand: the platform_* operators      *)
(* below model that layer from the written specification.                  *)
(***************************************************************************)
EXTENDS Integers, Sequences, FiniteSets, TLC

VARIABLES
    MENU_EVENT_HANDLER, \* OnceLock<Option<MenuEventHandler>>
    MENU_CHANNEL,       \* the events buffered in the unbounded channel
    invoked,            \* the handler invocations made so far: <<handler, event>>
    received,           \* the events try_recv has returned so far
    sinkRet,            \* the value returned by the last sink operation
    history,            \* the sink operations performed so far, in order
    children,           \* the Menu's ordered child sequence
    hwnds,              \* per window: the attachment, or Unattached
    menuRet,            \* the last Menu operation: its name, arguments and result
    reference,          \* a plain list driven by the same structural operations
    everDetached,       \* the windows that have been detached at least once
    native,             \* per window: the item order of its native menu
    COUNTER,            \* the process-wide source of generated MenuIds
    created,            \* the Menus constructed so far: their id, and how it was chosen
    m2,                 \* a second Menu handle: none, a clone of the first, or a new Menu
    cell2,              \* the RefCell<platform_impl::Menu> of a second Menu
    lastVia,            \* the handle the last Menu operation was made through
    kindIn,             \* a MenuItemKind value: its variant and the item it wraps
    castRet,            \* the last downcast applied to kindIn, and its result
    pc,                 \* where the UI thread is: idle, in a popup, in a handler
    borrow,             \* the borrow flag of the first Menu's RefCell
    panicked,           \* the Menu method whose borrow_mut panicked, or "no"
    command,            \* the native command id of the last activation
    threads             \* the threads that use the sink: where each one is, and
                        \* what each has sent, set and delivered

sinkVars == <<MENU_EVENT_HANDLER, MENU_CHANNEL, invoked, received, sinkRet, history>>
menuVars == <<children, hwnds, menuRet, reference, everDetached, native>>
handleVars == <<COUNTER, created, m2, cell2, lastVia>>
kindVars == <<kindIn, castRet>>
popupVars == <<pc, borrow, panicked, command>>
threadVars == <<threads>>
nonSinkVars == <<menuVars, handleVars, kindVars, popupVars, threadVars>>
nonMenuVars == <<sinkVars, handleVars, kindVars, popupVars, threadVars>>
vars == <<MENU_EVENT_HANDLER, MENU_CHANNEL, invoked, received, sinkRet, history,
          children, hwnds, menuRet, reference, everDetached, native,
          COUNTER, created, m2, cell2, lastVia, kindIn, castRet, pc, borrow, panicked, command, threads>>

----------------------------------------------------------------------------
(* Bounds of the model *)

\* the number of sink operations explored
MaxOps == 5
\* the longest child sequence a structural operation may grow
MaxItems == 3
\* the largest position handed to insert / remove_at
MaxPos == 4
\* the number of Menus constructed
MaxMenus == 3
\* the longest child sequence of a second Menu
MaxOtherItems == 1
\* the longest list handed to a bulk operation
MaxList == 2
\* the number of sink operations explored together with a popup
MaxPopupOps == 2
\* the longest child sequence explored together with a popup
MaxPopupItems == 2
\* the number of events each sending thread sends
MaxSends == 2
\* the number of set_event_handler calls the setting thread makes
MaxSets == 1
\* the longest child sequence a bulk operation may grow
MaxBulk == 4

\* a structural addition is explored while both lists are below MaxItems
Room == Len(children) < MaxItems /\ Len(reference) < MaxItems

----------------------------------------------------------------------------
(* Values *)

\* the handlers an application may install (Some(f))
Handlers == {"h1", "h2"}
\* the argument None of set_event_handler, and the committed value Some(None)
NoHandler == "None"
\* the OnceLock before anything was committed
Uninit == "Uninit"
\* MenuIds: the items the application holds, and the ids events carry
Items == {"A", "B"}
\* window handles
Hwnds == {"W1", "W2"}
\* enum MenuTheme
MenuTheme == {"Dark", "Light", "Auto"}

----------------------------------------------------------------------------
(* The event sink: lib.rs *)

\* a cell whose set replaces the value it holds
OnceLock_set_overwrite(cell, value) == value

\* OnceLock::set: stores the value only if the cell is still empty
OnceLock_set(cell, value) == IF cell = Uninit THEN value ELSE cell

\* a read that leaves an empty cell empty
OnceLock_get_no_init(cell, value) == cell

\* OnceLock::get_or_init: initialises an empty cell, then reads it
OnceLock_get_or_init(cell, value) == IF cell = Uninit THEN value ELSE cell

\* a result that hands out the committed Option as it is: Some(None) for a
\* cell holding "no handler"
set_event_handler_result_mapped(cell) ==
    IF cell \in Handlers THEN <<"Some", <<"Some", cell>>>>
    ELSE IF cell = NoHandler THEN <<"Some", <<"None">>>>
    ELSE <<"None">>

\* what set_event_handler returns for the committed cell
set_event_handler_result(cell) ==
    IF cell \in Handlers THEN <<"Some", <<"Some", cell>>>> ELSE <<"None">>

\* MenuEvent::set_event_handler(f), f a handler or None
set_event_handler(f) ==
    /\ Len(history) < MaxOps
    /\ MENU_EVENT_HANDLER' = OnceLock_set(MENU_EVENT_HANDLER, f)
    /\ sinkRet' = set_event_handler_result(MENU_EVENT_HANDLER')
    /\ history' = Append(history, [op |-> "set_event_handler", arg |-> f])
    /\ UNCHANGED <<MENU_CHANNEL, invoked, received>>

\* send that pushes the newest event to the front of the channel
send_lifo(event) ==
    /\ Len(history) < MaxOps
    /\ MENU_EVENT_HANDLER' = OnceLock_get_or_init(MENU_EVENT_HANDLER, NoHandler)
    /\ IF MENU_EVENT_HANDLER' \in Handlers
          THEN /\ invoked' = Append(invoked, <<MENU_EVENT_HANDLER', event>>)
               /\ UNCHANGED MENU_CHANNEL
          ELSE /\ MENU_CHANNEL' = <<event>> \o MENU_CHANNEL
               /\ UNCHANGED invoked
    /\ sinkRet' = <<"unit">>
    /\ history' = Append(history, [op |-> "send", arg |-> event])
    /\ UNCHANGED received

\* send that uses the channel only while nothing is committed, and drops the
\* event once "no handler" is committed
send_drop_when_none(event) ==
    /\ Len(history) < MaxOps
    /\ UNCHANGED MENU_EVENT_HANDLER
    /\ IF MENU_EVENT_HANDLER \in Handlers
          THEN /\ invoked' = Append(invoked, <<MENU_EVENT_HANDLER, event>>)
               /\ UNCHANGED MENU_CHANNEL
          ELSE /\ MENU_CHANNEL' = IF MENU_EVENT_HANDLER = Uninit
                                     THEN Append(MENU_CHANNEL, event)
                                     ELSE MENU_CHANNEL
               /\ UNCHANGED invoked
    /\ sinkRet' = <<"unit">>
    /\ history' = Append(history, [op |-> "send", arg |-> event])
    /\ UNCHANGED received

\* send that runs the handler and buffers the event on the channel as well
send_also_queued(event) ==
    /\ Len(history) < MaxOps
    /\ MENU_EVENT_HANDLER' = OnceLock_get_or_init(MENU_EVENT_HANDLER, NoHandler)
    /\ IF MENU_EVENT_HANDLER' \in Handlers
          THEN invoked' = Append(invoked, <<MENU_EVENT_HANDLER', event>>)
          ELSE UNCHANGED invoked
    /\ MENU_CHANNEL' = Append(MENU_CHANNEL, event)
    /\ sinkRet' = <<"unit">>
    /\ history' = Append(history, [op |-> "send", arg |-> event])
    /\ UNCHANGED received

\* MenuEvent::send(event)
send(event) ==
    /\ Len(history) < MaxOps
    /\ MENU_EVENT_HANDLER' = OnceLock_get_or_init(MENU_EVENT_HANDLER, NoHandler)
    /\ IF MENU_EVENT_HANDLER' \in Handlers
          THEN /\ invoked' = Append(invoked, <<MENU_EVENT_HANDLER', event>>)
               /\ UNCHANGED MENU_CHANNEL
          ELSE /\ MENU_CHANNEL' = Append(MENU_CHANNEL, event)
               /\ UNCHANGED invoked
    /\ sinkRet' = <<"unit">>
    /\ history' = Append(history, [op |-> "send", arg |-> event])
    /\ UNCHANGED received

\* MenuEvent::receiver().try_recv()
try_recv ==
    /\ Len(history) < MaxOps
    /\ IF MENU_CHANNEL = <<>>
          THEN /\ sinkRet' = <<"Err", "Empty">>
               /\ UNCHANGED <<MENU_CHANNEL, received>>
          ELSE /\ sinkRet' = <<"Ok", Head(MENU_CHANNEL)>>
               /\ received' = Append(received, Head(MENU_CHANNEL))
               /\ MENU_CHANNEL' = Tail(MENU_CHANNEL)
    /\ history' = Append(history, [op |-> "try_recv", arg |-> "-"])
    /\ UNCHANGED <<MENU_EVENT_HANDLER, invoked>>

SinkInit ==
    /\ MENU_EVENT_HANDLER = Uninit
    /\ MENU_CHANNEL = <<>>
    /\ invoked = <<>>
    /\ received = <<>>
    /\ sinkRet = <<"unit">>
    /\ history = <<>>

SinkNext ==
    \/ \E f \in Handlers \cup {NoHandler} : set_event_handler(f) /\ UNCHANGED nonSinkVars
    \/ \E event \in Items : send(event) /\ UNCHANGED nonSinkVars
    \/ try_recv /\ UNCHANGED nonSinkVars

----------------------------------------------------------------------------
(* Sequence helpers *)

Range(s) == {s[i] : i \in 1..Len(s)}

Min(a, b) == IF a < b THEN a ELSE b

\* Vec::insert(index, x), index counted from 0 and index <= len
InsertAt(s, index, x) == SubSeq(s, 1, index) \o <<x>> \o SubSeq(s, index + 1, Len(s))

\* Vec::remove(index), index counted from 0 and index < len
DeleteAt(s, index) == SubSeq(s, 1, index) \o SubSeq(s, index + 2, Len(s))

----------------------------------------------------------------------------
(* platform_impl::Menu: the layer every Menu method delegates to.  It is   *)
(* outside the sources at hand; these operators follow the specification.  *)

\* util::AddOp
AddOpAppend == [kind |-> "Append", position |-> 0]
AddOpInsert(position) == [kind |-> "Insert", position |-> position]

Ok == <<"Ok">>
Err(e) == <<"Err", e>>

\* an attachment entry of a window, and the entry of a window without one
Attachment(theme, visible) == [state |-> "Attached", theme |-> theme, visible |-> visible]
Unattached == [state |-> "Unattached", theme |-> "unset", visible |-> "false"]

\* add_menu_item: appended at the end, or inserted at the position; a position
\* at or past the length degrades to an append; no failure
platform_add_menu_item(ch, item, op) ==
    [children |-> IF op.kind = "Append"
                     THEN Append(ch, item)
                     ELSE InsertAt(ch, Min(op.position, Len(ch)), item),
     result |-> Ok]

\* remove that deletes only the first entry holding the item
platform_remove_first(ch, item) ==
    IF item \in Range(ch)
       THEN LET i == CHOOSE k \in 1..Len(ch) :
                        ch[k] = item /\ \A j \in 1..(k - 1) : ch[j] # item
            IN [children |-> DeleteAt(ch, i - 1), result |-> Ok]
       ELSE [children |-> ch, result |-> Err("NotAChildOfThisMenu")]

\* remove: the item is removed from the sequence, which then no longer contains
\* it; an item that is not a tracked child is NotAChildOfThisMenu
platform_remove(ch, item) ==
    IF item \in Range(ch)
       THEN [children |-> SelectSeq(ch, LAMBDA x : x # item), result |-> Ok]
       ELSE [children |-> ch, result |-> Err("NotAChildOfThisMenu")]

\* items: a snapshot of the current children, in order
platform_items(ch) == ch

\* attach: binds the menu to the window; AlreadyInitialized if it is bound
platform_init_for_hwnd_with_theme(hw, hwnd, theme) ==
    IF hw[hwnd].state = "Attached"
       THEN [hwnds |-> hw, result |-> Err("AlreadyInitialized")]
       ELSE [hwnds |-> [hw EXCEPT ![hwnd] = Attachment(theme, "true")], result |-> Ok]

platform_init_for_hwnd(hw, hwnd) == platform_init_for_hwnd_with_theme(hw, hwnd, "unset")

\* a detach that drops the attachments of all windows
platform_remove_for_hwnd_all(hw, hwnd) ==
    IF hw[hwnd].state = "Attached"
       THEN [hwnds |-> [h \in Hwnds |-> Unattached], result |-> Ok]
       ELSE [hwnds |-> hw, result |-> Err("NotInitialized")]

\* detach: unbinds; NotInitialized if the window has no attachment
platform_remove_for_hwnd(hw, hwnd) ==
    IF hw[hwnd].state = "Attached"
       THEN [hwnds |-> [hw EXCEPT ![hwnd] = Unattached], result |-> Ok]
       ELSE [hwnds |-> hw, result |-> Err("NotInitialized")]

\* theme application, per attachment
platform_set_theme_for_hwnd(hw, hwnd, theme) ==
    IF hw[hwnd].state = "Attached"
       THEN [hwnds |-> [hw EXCEPT ![hwnd].theme = theme], result |-> Ok]
       ELSE [hwnds |-> hw, result |-> Err("NotInitialized")]

\* visibility toggling, per attachment
platform_set_visible_for_hwnd(hw, hwnd, visible) ==
    IF hw[hwnd].state = "Attached"
       THEN [hwnds |-> [hw EXCEPT ![hwnd].visible = visible], result |-> Ok]
       ELSE [hwnds |-> hw, result |-> Err("NotInitialized")]

platform_hide_for_hwnd(hw, hwnd) == platform_set_visible_for_hwnd(hw, hwnd, "false")

platform_show_for_hwnd(hw, hwnd) == platform_set_visible_for_hwnd(hw, hwnd, "true")

\* the visibility query: a plain bool
platform_is_visible_on_hwnd(hw, hwnd) == hw[hwnd].visible

\* a mirroring that reaches one native menu only: the others keep what they had
platform_resync_one_window(old, hw, ch) ==
    LET attached == {h \in Hwnds : hw[h].state = "Attached"}
        first == CHOOSE h \in attached : TRUE
    IN [h \in Hwnds |-> IF h \notin attached THEN <<>>
                         ELSE IF h = first THEN ch ELSE old[h]]

\* the native mirror: after a change of the sequence or of the attachments,
\* the native menu of every attached window lists the children in order; a
\* window without attachment has no native menu of this Menu
platform_resync(old, hw, ch) ==
    [h \in Hwnds |-> IF hw[h].state = "Attached" THEN ch ELSE <<>>]

----------------------------------------------------------------------------
(* The reference list the structural operations are compared with *)

ref_append(list, item) == Append(list, item)

ref_prepend(list, item) == <<item>> \o list

ref_insert(list, item, position) == InsertAt(list, Min(position, Len(list)), item)

ref_remove(list, item) == SelectSeq(list, LAMBDA x : x # item)

ref_remove_at(list, position) ==
    IF position < Len(list) THEN DeleteAt(list, position) ELSE list

----------------------------------------------------------------------------
(* Menu: menu.rs *)

\* the record of a call: its name, arguments and result, and the number of
\* children the menu had when it was made, and the list a bulk operation was
\* given
Call(op, item, position, hwnd, theme, result) ==
    [op |-> op, item |-> item, position |-> position, hwnd |-> hwnd,
     theme |-> theme, result |-> result, len |-> Len(children), list |-> <<>>]

\* Menu::items
items == platform_items(children)

\* Menu::append(item)
append(item) ==
    /\ Room
    /\ LET r == platform_add_menu_item(children, item, AddOpAppend)
       IN /\ children' = r.children
          /\ menuRet' = Call("append", item, -1, "-", "-", r.result)
    /\ reference' = ref_append(reference, item)
    /\ native' = platform_resync(native, hwnds, children')
    /\ UNCHANGED <<hwnds, everDetached>>

\* Menu::prepend(item)
prepend(item) ==
    /\ Room
    /\ LET r == platform_add_menu_item(children, item, AddOpInsert(0))
       IN /\ children' = r.children
          /\ menuRet' = Call("prepend", item, -1, "-", "-", r.result)
    /\ reference' = ref_prepend(reference, item)
    /\ native' = platform_resync(native, hwnds, children')
    /\ UNCHANGED <<hwnds, everDetached>>

\* insert that hands the platform layer position 0, as prepend does
insert_at_front(item, position) ==
    /\ Room
    /\ LET r == platform_add_menu_item(children, item, AddOpInsert(0))
       IN /\ children' = r.children
          /\ menuRet' = Call("insert", item, position, "-", "-", r.result)
    /\ reference' = ref_insert(reference, item, position)
    /\ native' = platform_resync(native, hwnds, children')
    /\ UNCHANGED <<hwnds, everDetached>>

\* Menu::insert(item, position)
insert(item, position) ==
    /\ Room
    /\ LET r == platform_add_menu_item(children, item, AddOpInsert(position))
       IN /\ children' = r.children
          /\ menuRet' = Call("insert", item, position, "-", "-", r.result)
    /\ reference' = ref_insert(reference, item, position)
    /\ native' = platform_resync(native, hwnds, children')
    /\ UNCHANGED <<hwnds, everDetached>>

\* remove that drops the platform layer's result, as remove_at does
remove_result_dropped(item) ==
    /\ LET r == platform_remove(children, item)
       IN /\ children' = r.children
          /\ menuRet' = Call("remove", item, -1, "-", "-", Ok)
    /\ reference' = ref_remove(reference, item)
    /\ native' = platform_resync(native, hwnds, children')
    /\ UNCHANGED <<hwnds, everDetached>>

\* Menu::remove(item)
remove(item) ==
    /\ LET r == platform_remove(children, item)
       IN /\ children' = r.children
          /\ menuRet' = Call("remove", item, -1, "-", "-", r.result)
    /\ reference' = ref_remove(reference, item)
    /\ native' = platform_resync(native, hwnds, children')
    /\ UNCHANGED <<hwnds, everDetached>>

\* Menu::remove_at(position): the item is looked up by position in a snapshot
\* and then removed through Menu::remove, whose result is dropped
remove_at(position) ==
    /\ IF Len(items) > position
          THEN LET item == items[position + 1]
                   r == platform_remove(children, item)
               IN /\ children' = r.children
                  /\ menuRet' = Call("remove_at", "-", position, "-", "-", <<"Some", item>>)
          ELSE /\ UNCHANGED children
               /\ menuRet' = Call("remove_at", "-", position, "-", "-", <<"None">>)
    /\ reference' = ref_remove_at(reference, position)
    /\ native' = platform_resync(native, hwnds, children')
    /\ UNCHANGED <<hwnds, everDetached>>

\* init_for_hwnd that drops the platform layer's result
init_for_hwnd_result_dropped(hwnd) ==
    /\ LET r == platform_init_for_hwnd(hwnds, hwnd)
       IN /\ hwnds' = r.hwnds
          /\ menuRet' = Call("init_for_hwnd", "-", -1, hwnd, "-", Ok)
          /\ UNCHANGED everDetached
    /\ native' = platform_resync(native, hwnds', children)
    /\ UNCHANGED <<children, reference>>

\* Menu::init_for_hwnd(hwnd)
init_for_hwnd(hwnd) ==
    /\ LET r == platform_init_for_hwnd(hwnds, hwnd)
       IN /\ hwnds' = r.hwnds
          /\ menuRet' = Call("init_for_hwnd", "-", -1, hwnd, "-", r.result)
          /\ UNCHANGED everDetached
    /\ native' = platform_resync(native, hwnds', children)
    /\ UNCHANGED <<children, reference>>

\* Menu::init_for_hwnd_with_theme(hwnd, theme)
init_for_hwnd_with_theme(hwnd, theme) ==
    /\ LET r == platform_init_for_hwnd_with_theme(hwnds, hwnd, theme)
       IN /\ hwnds' = r.hwnds
          /\ menuRet' = Call("init_for_hwnd_with_theme", "-", -1, hwnd, theme, r.result)
          /\ UNCHANGED everDetached
    /\ native' = platform_resync(native, hwnds', children)
    /\ UNCHANGED <<children, reference>>

\* Menu::set_theme_for_hwnd(hwnd, theme)
set_theme_for_hwnd(hwnd, theme) ==
    /\ LET r == platform_set_theme_for_hwnd(hwnds, hwnd, theme)
       IN /\ hwnds' = r.hwnds
          /\ menuRet' = Call("set_theme_for_hwnd", "-", -1, hwnd, theme, r.result)
    /\ UNCHANGED <<children, reference, everDetached, native>>

\* Menu::remove_for_hwnd(hwnd)
remove_for_hwnd(hwnd) ==
    /\ LET r == platform_remove_for_hwnd(hwnds, hwnd)
       IN /\ hwnds' = r.hwnds
          /\ menuRet' = Call("remove_for_hwnd", "-", -1, hwnd, "-", r.result)
          /\ everDetached' = IF r.result = Ok THEN everDetached \cup {hwnd} ELSE everDetached
    /\ native' = platform_resync(native, hwnds', children)
    /\ UNCHANGED <<children, reference>>

\* hide_for_hwnd that drops the platform layer's result
hide_for_hwnd_result_dropped(hwnd) ==
    /\ LET r == platform_hide_for_hwnd(hwnds, hwnd)
       IN /\ hwnds' = r.hwnds
          /\ menuRet' = Call("hide_for_hwnd", "-", -1, hwnd, "-", Ok)
    /\ UNCHANGED <<children, reference, everDetached, native>>

\* Menu::hide_for_hwnd(hwnd)
hide_for_hwnd(hwnd) ==
    /\ LET r == platform_hide_for_hwnd(hwnds, hwnd)
       IN /\ hwnds' = r.hwnds
          /\ menuRet' = Call("hide_for_hwnd", "-", -1, hwnd, "-", r.result)
    /\ UNCHANGED <<children, reference, everDetached, native>>

\* Menu::show_for_hwnd(hwnd)
show_for_hwnd(hwnd) ==
    /\ LET r == platform_show_for_hwnd(hwnds, hwnd)
       IN /\ hwnds' = r.hwnds
          /\ menuRet' = Call("show_for_hwnd", "-", -1, hwnd, "-", r.result)
    /\ UNCHANGED <<children, reference, everDetached, native>>

\* Menu::is_visible_on_hwnd(hwnd): returns bool, not a Result
is_visible_on_hwnd(hwnd) ==
    /\ menuRet' = Call("is_visible_on_hwnd", "-", -1, hwnd, "-",
                       <<"Bool", platform_is_visible_on_hwnd(hwnds, hwnd)>>)
    /\ UNCHANGED <<children, hwnds, reference, everDetached, native>>

\* Menu::new
----------------------------------------------------------------------------
(* Menu construction and handles: menu.rs *)

\* Option<MenuId>::None
NoId == 0
\* the first id the counter hands out
CounterStart == 1
\* the ids an application passes to with_id; they may coincide with generated ones
UserIds == {1, 2}

\* platform_impl::Menu::new(id): without an id, a fresh one is taken from the
\* process-wide counter
platform_Menu_new(counter, id) ==
    IF id = NoId
       THEN [id |-> counter, counter |-> counter + 1]
       ELSE [id |-> id, counter |-> counter]

\* a platform_impl::Menu as constructed: no children, no attachments
NewCell == [children |-> <<>>, hwnds |-> [h \in Hwnds |-> Unattached]]
\* no second handle is held
NoHandle == [how |-> "none", id |-> NoId, inner |-> 0]

\* the first Menu: struct Menu { id, inner }; its cell is children / hwnds
m1 == [how |-> "new", id |-> created[1].id, inner |-> 1]

Handle(h) == IF h = "m1" THEN m1 ELSE m2

\* the handle a constructor returns is kept as m2 if none is held, else dropped
Keep(how, id) ==
    IF m2.how = "none"
       THEN m2' = [how |-> how, id |-> id, inner |-> 2] /\ cell2' = NewCell
       ELSE UNCHANGED <<m2, cell2>>

\* Menu::new with a constant id in place of the platform menu's id
Menu_new_fixed_id ==
    /\ Len(created) < MaxMenus
    /\ LET menu == platform_Menu_new(COUNTER, NoId)
       IN /\ COUNTER' = menu.counter
          /\ created' = Append(created, [id |-> CounterStart, auto |-> TRUE])
          /\ Keep("new", CounterStart)
    /\ UNCHANGED lastVia

\* Menu::new()
Menu_new ==
    /\ Len(created) < MaxMenus
    /\ LET menu == platform_Menu_new(COUNTER, NoId)
       IN /\ COUNTER' = menu.counter
          /\ created' = Append(created, [id |-> menu.id, auto |-> TRUE])
          /\ Keep("new", menu.id)
    /\ UNCHANGED lastVia

\* Menu::with_id(id)
Menu_with_id(id) ==
    /\ Len(created) < MaxMenus
    /\ LET menu == platform_Menu_new(COUNTER, id)
       IN /\ COUNTER' = menu.counter
          /\ created' = Append(created, [id |-> id, auto |-> FALSE])
          /\ Keep("with_id", id)
    /\ UNCHANGED lastVia

\* Menu::id
Menu_id(h) == Handle(h).id

\* a clone that copies the platform menu into a cell of its own
Menu_clone_deep ==
    /\ m2.how = "none"
    /\ m2' = [how |-> "clone", id |-> m1.id, inner |-> 2]
    /\ cell2' = [children |-> children, hwnds |-> hwnds]
    /\ UNCHANGED <<COUNTER, created, lastVia>>

\* #[derive(Clone)] on Menu: both Rc fields are cloned, so the new handle
\* points to the same id and the same cell
Menu_clone ==
    /\ m2.how = "none"
    /\ m2' = [how |-> "clone", id |-> m1.id, inner |-> m1.inner]
    /\ UNCHANGED <<COUNTER, created, cell2, lastVia>>

HandleInit ==
    /\ LET menu == platform_Menu_new(CounterStart, NoId)
       IN /\ COUNTER = menu.counter
          /\ created = <<[id |-> menu.id, auto |-> TRUE]>>
    /\ m2 = NoHandle
    /\ cell2 = NewCell
    /\ lastVia = "m1"

MenuInit ==
    /\ children = <<>>
    /\ hwnds = [h \in Hwnds |-> Unattached]
    /\ menuRet = Call("new", "-", -1, "-", "-", Ok)
    /\ reference = <<>>
    /\ everDetached = {}
    /\ native = [h \in Hwnds |-> <<>>]

MenuNext ==
    \/ \E item \in Items : append(item) /\ UNCHANGED nonMenuVars
    \/ \E item \in Items : prepend(item) /\ UNCHANGED nonMenuVars
    \/ \E item \in Items, position \in 0..MaxPos : insert(item, position) /\ UNCHANGED nonMenuVars
    \/ \E item \in Items : remove(item) /\ UNCHANGED nonMenuVars
    \/ \E position \in 0..MaxPos : remove_at(position) /\ UNCHANGED nonMenuVars
    \/ \E hwnd \in Hwnds : init_for_hwnd(hwnd) /\ UNCHANGED nonMenuVars
    \/ \E hwnd \in Hwnds : remove_for_hwnd(hwnd) /\ UNCHANGED nonMenuVars

AttachNext ==
    \/ \E item \in Items : append(item) /\ UNCHANGED nonMenuVars
    \/ \E item \in Items : remove(item) /\ UNCHANGED nonMenuVars
    \/ \E hwnd \in Hwnds : init_for_hwnd(hwnd) /\ UNCHANGED nonMenuVars
    \/ \E hwnd \in Hwnds, theme \in MenuTheme :
          init_for_hwnd_with_theme(hwnd, theme) /\ UNCHANGED nonMenuVars
    \/ \E hwnd \in Hwnds, theme \in MenuTheme :
          set_theme_for_hwnd(hwnd, theme) /\ UNCHANGED nonMenuVars
    \/ \E hwnd \in Hwnds : remove_for_hwnd(hwnd) /\ UNCHANGED nonMenuVars
    \/ \E hwnd \in Hwnds : hide_for_hwnd(hwnd) /\ UNCHANGED nonMenuVars
    \/ \E hwnd \in Hwnds : show_for_hwnd(hwnd) /\ UNCHANGED nonMenuVars
    \/ \E hwnd \in Hwnds : is_visible_on_hwnd(hwnd) /\ UNCHANGED nonMenuVars

----------------------------------------------------------------------------
(* Menu operations made through a handle: self.inner is dereferenced *)

\* the record of a call made on the second Menu's cell
Call2(op, item, hwnd, result) ==
    [Call(op, item, -1, hwnd, "-", result) EXCEPT !.len = Len(cell2.children)]

\* Menu::items through a handle
items_via(h) ==
    IF Handle(h).inner = 1 THEN items ELSE platform_items(cell2.children)

\* the attachments a handle's Menu has
hwnds_via(h) == IF Handle(h).inner = 1 THEN hwnds ELSE cell2.hwnds

\* Menu::append through a handle
append_via(h, item) ==
    /\ Handle(h).how # "none"
    /\ lastVia' = h
    /\ IF Handle(h).inner = 1
          THEN append(item) /\ UNCHANGED cell2
          ELSE /\ Len(cell2.children) < MaxOtherItems
               /\ LET r == platform_add_menu_item(cell2.children, item, AddOpAppend)
                  IN /\ cell2' = [cell2 EXCEPT !.children = r.children]
                     /\ menuRet' = Call2("append", item, "-", r.result)
               /\ UNCHANGED <<children, hwnds, reference, everDetached, native>>
    /\ UNCHANGED <<COUNTER, created, m2>>

\* Menu::remove through a handle
remove_via(h, item) ==
    /\ Handle(h).how # "none"
    /\ lastVia' = h
    /\ IF Handle(h).inner = 1
          THEN remove(item) /\ UNCHANGED cell2
          ELSE /\ LET r == platform_remove(cell2.children, item)
                  IN /\ cell2' = [cell2 EXCEPT !.children = r.children]
                     /\ menuRet' = Call2("remove", item, "-", r.result)
               /\ UNCHANGED <<children, hwnds, reference, everDetached, native>>
    /\ UNCHANGED <<COUNTER, created, m2>>

\* Menu::init_for_hwnd through a handle
init_for_hwnd_via(h, hwnd) ==
    /\ Handle(h).how # "none"
    /\ lastVia' = h
    /\ IF Handle(h).inner = 1
          THEN init_for_hwnd(hwnd) /\ UNCHANGED cell2
          ELSE /\ LET r == platform_init_for_hwnd(cell2.hwnds, hwnd)
                  IN /\ cell2' = [cell2 EXCEPT !.hwnds = r.hwnds]
                     /\ menuRet' = Call2("init_for_hwnd", "-", hwnd, r.result)
               /\ UNCHANGED <<children, hwnds, reference, everDetached, native>>
    /\ UNCHANGED <<COUNTER, created, m2>>

\* Menu::remove_for_hwnd through a handle
remove_for_hwnd_via(h, hwnd) ==
    /\ Handle(h).how # "none"
    /\ lastVia' = h
    /\ IF Handle(h).inner = 1
          THEN remove_for_hwnd(hwnd) /\ UNCHANGED cell2
          ELSE /\ LET r == platform_remove_for_hwnd(cell2.hwnds, hwnd)
                  IN /\ cell2' = [cell2 EXCEPT !.hwnds = r.hwnds]
                     /\ menuRet' = Call2("remove_for_hwnd", "-", hwnd, r.result)
               /\ UNCHANGED <<children, hwnds, reference, everDetached, native>>
    /\ UNCHANGED <<COUNTER, created, m2>>

HandleNames == {"m1", "m2"}
\* the window the handle operations attach to
HandleHwnds == {"W1"}

\* the frame of a step that touches handles and the first Menu only
handleFrame == <<sinkVars, kindVars, popupVars, threadVars>>
\* the frame of a constructor or a clone
constructFrame == <<sinkVars, menuVars, kindVars, popupVars, threadVars>>

\* two handles: a clone or a second Menu, and operations through either
CloneNext ==
    \/ Menu_clone /\ UNCHANGED constructFrame
    \/ Menu_new /\ UNCHANGED constructFrame
    \/ \E h \in HandleNames, item \in Items : append_via(h, item) /\ UNCHANGED handleFrame
    \/ \E h \in HandleNames, item \in Items : remove_via(h, item) /\ UNCHANGED handleFrame
    \/ \E h \in HandleNames, hwnd \in HandleHwnds :
          init_for_hwnd_via(h, hwnd) /\ UNCHANGED handleFrame
    \/ \E h \in HandleNames, hwnd \in HandleHwnds :
          remove_for_hwnd_via(h, hwnd) /\ UNCHANGED handleFrame

\* construction of Menus, and operations on the first one
IdsNext ==
    \/ Menu_new /\ UNCHANGED constructFrame
    \/ \E i \in UserIds : Menu_with_id(i) /\ UNCHANGED constructFrame
    \/ \E item \in Items : append(item) /\ UNCHANGED nonMenuVars
    \/ \E item \in Items : remove(item) /\ UNCHANGED nonMenuVars
    \/ \E hwnd \in Hwnds : init_for_hwnd(hwnd) /\ UNCHANGED nonMenuVars
    \/ \E hwnd \in Hwnds : remove_for_hwnd(hwnd) /\ UNCHANGED nonMenuVars

----------------------------------------------------------------------------
(* Menu, bulk operations: menu.rs *)

\* the lists an application hands to a bulk operation
Lists == UNION {[1..n -> Items] : n \in 0..MaxList}

\* a bulk operation is explored while the result stays within MaxBulk
BulkRoom(xs) ==
    /\ Len(children) + Len(xs) <= MaxBulk
    /\ Len(reference) + Len(xs) <= MaxBulk

\* the loop of append_items: self.append(*item)? for each item in turn
RECURSIVE append_items_loop(_, _, _)
append_items_loop(ch, xs, i) ==
    IF i = Len(xs)
       THEN [children |-> ch, result |-> Ok]
       ELSE LET r == platform_add_menu_item(ch, xs[i + 1], AddOpAppend)
            IN IF r.result # Ok THEN r ELSE append_items_loop(r.children, xs, i + 1)

\* a loop that inserts every item at the same position
RECURSIVE insert_items_loop_same_position(_, _, _, _)
insert_items_loop_same_position(ch, xs, position, i) ==
    IF i = Len(xs)
       THEN [children |-> ch, result |-> Ok]
       ELSE LET r == platform_add_menu_item(ch, xs[i + 1], AddOpInsert(position))
            IN IF r.result # Ok
                  THEN r
                  ELSE insert_items_loop_same_position(r.children, xs, position, i + 1)

\* the loop of insert_items: self.insert(*item, position + i)? for the i-th item
RECURSIVE insert_items_loop(_, _, _, _)
insert_items_loop(ch, xs, position, i) ==
    IF i = Len(xs)
       THEN [children |-> ch, result |-> Ok]
       ELSE LET r == platform_add_menu_item(ch, xs[i + 1], AddOpInsert(position + i))
            IN IF r.result # Ok
                  THEN r
                  ELSE insert_items_loop(r.children, xs, position, i + 1)

\* the reference list after a bulk insertion: the list is spliced in as a whole
ref_insert_items(list, xs, position) ==
    LET q == Min(position, Len(list))
    IN SubSeq(list, 1, q) \o xs \o SubSeq(list, q + 1, Len(list))

\* Menu::append_items(items)
append_items(xs) ==
    /\ BulkRoom(xs)
    /\ LET r == append_items_loop(children, xs, 0)
       IN /\ children' = r.children
          /\ menuRet' = [Call("append_items", "-", -1, "-", "-", r.result)
                            EXCEPT !.list = xs]
    /\ reference' = ref_insert_items(reference, xs, Len(reference))
    /\ native' = platform_resync(native, hwnds, children')
    /\ UNCHANGED <<hwnds, everDetached>>

\* Menu::insert_items(items, position)
insert_items(xs, position) ==
    /\ BulkRoom(xs)
    /\ LET r == insert_items_loop(children, xs, position, 0)
       IN /\ children' = r.children
          /\ menuRet' = [Call("insert_items", "-", position, "-", "-", r.result)
                            EXCEPT !.list = xs]
    /\ reference' = ref_insert_items(reference, xs, position)
    /\ native' = platform_resync(native, hwnds, children')
    /\ UNCHANGED <<hwnds, everDetached>>

\* Menu::prepend_items(items): self.insert_items(items, 0)
prepend_items(xs) ==
    /\ BulkRoom(xs)
    /\ LET r == insert_items_loop(children, xs, 0, 0)
       IN /\ children' = r.children
          /\ menuRet' = [Call("prepend_items", "-", -1, "-", "-", r.result)
                            EXCEPT !.list = xs]
    /\ reference' = ref_insert_items(reference, xs, 0)
    /\ native' = platform_resync(native, hwnds, children')
    /\ UNCHANGED <<hwnds, everDetached>>

\* bulk operations, with the single ones that empty and fill the menu
BulkNext ==
    \/ \E xs \in Lists : append_items(xs) /\ UNCHANGED nonMenuVars
    \/ \E xs \in Lists : prepend_items(xs) /\ UNCHANGED nonMenuVars
    \/ \E xs \in Lists, position \in 0..MaxPos :
          insert_items(xs, position) /\ UNCHANGED nonMenuVars
    \/ \E item \in Items : prepend(item) /\ UNCHANGED nonMenuVars
    \/ \E item \in Items : remove(item) /\ UNCHANGED nonMenuVars

----------------------------------------------------------------------------
(* MenuItemKind: lib.rs *)

\* the variants of enum MenuItemKind
Variants == {"MenuItem", "Submenu", "Predefined", "Check", "Icon"}
\* a MenuItemKind value: the variant and the item it wraps
MenuItemKind == [kind : Variants, item : Items]

\* Option<&X> and &X, and the panic of an unchecked downcast
Some(i) == <<"Some", i>>
None == <<"None">>
Ref(i) == <<"Ref", i>>
Panic(msg) == <<"panic", msg>>

\* MenuItemKind::id: every variant hands out the id of the item it wraps
MenuItemKind_id(k) ==
    CASE k.kind = "MenuItem" -> k.item
      [] k.kind = "Submenu" -> k.item
      [] k.kind = "Predefined" -> k.item
      [] k.kind = "Check" -> k.item
      [] k.kind = "Icon" -> k.item

as_menuitem(k) == IF k.kind = "MenuItem" THEN Some(k.item) ELSE None

as_menuitem_unchecked(k) ==
    IF k.kind = "MenuItem" THEN Ref(k.item) ELSE Panic("Not a MenuItem")

\* as_submenu with the arm of another variant
as_submenu_wrong_arm(k) == IF k.kind = "MenuItem" THEN Some(k.item) ELSE None

as_submenu(k) == IF k.kind = "Submenu" THEN Some(k.item) ELSE None

as_submenu_unchecked(k) ==
    IF k.kind = "Submenu" THEN Ref(k.item) ELSE Panic("Not a Submenu")

as_predefined_menuitem(k) == IF k.kind = "Predefined" THEN Some(k.item) ELSE None

as_predefined_menuitem_unchecked(k) ==
    IF k.kind = "Predefined" THEN Ref(k.item) ELSE Panic("Not a PredefinedMenuItem")

as_check_menuitem(k) == IF k.kind = "Check" THEN Some(k.item) ELSE None

as_check_menuitem_unchecked(k) ==
    IF k.kind = "Check" THEN Ref(k.item) ELSE Panic("Not a CheckMenuItem")

as_icon_menuitem(k) == IF k.kind = "Icon" THEN Some(k.item) ELSE None

as_icon_menuitem_unchecked(k) ==
    IF k.kind = "Icon" THEN Ref(k.item) ELSE Panic("Not an IconMenuItem")

\* MenuItemKind::into_id
into_id(k) ==
    CASE k.kind = "MenuItem" -> k.item
      [] k.kind = "Submenu" -> k.item
      [] k.kind = "Predefined" -> k.item
      [] k.kind = "Check" -> k.item
      [] k.kind = "Icon" -> k.item

\* a function of MenuItemKind is applied to kindIn
Cast(fn, result) ==
    /\ castRet' = [fn |-> fn, result |-> result]
    /\ UNCHANGED <<kindIn, sinkVars, menuVars, handleVars, popupVars, threadVars>>

KindNext ==
    \/ Cast("id", <<"MenuId", MenuItemKind_id(kindIn)>>)
    \/ Cast("as_menuitem", as_menuitem(kindIn))
    \/ Cast("as_menuitem_unchecked", as_menuitem_unchecked(kindIn))
    \/ Cast("as_submenu", as_submenu(kindIn))
    \/ Cast("as_submenu_unchecked", as_submenu_unchecked(kindIn))
    \/ Cast("as_predefined_menuitem", as_predefined_menuitem(kindIn))
    \/ Cast("as_predefined_menuitem_unchecked", as_predefined_menuitem_unchecked(kindIn))
    \/ Cast("as_check_menuitem", as_check_menuitem(kindIn))
    \/ Cast("as_check_menuitem_unchecked", as_check_menuitem_unchecked(kindIn))
    \/ Cast("as_icon_menuitem", as_icon_menuitem(kindIn))
    \/ Cast("as_icon_menuitem_unchecked", as_icon_menuitem_unchecked(kindIn))
    \/ Cast("into_id", <<"MenuId", into_id(kindIn)>>)

\* no function was applied yet
NoCast == [fn |-> "-", result |-> <<"-">>]

KindInit ==
    /\ kindIn = [kind |-> "MenuItem", item |-> "A"]
    /\ castRet = NoCast

\* any MenuItemKind value as the input
KindInitAny ==
    /\ kindIn \in MenuItemKind
    /\ castRet = NoCast

----------------------------------------------------------------------------
(* Popups, activations and the exclusive borrow: menu.rs, lib.rs *)

\* a borrow_mut that never fails
RefCell_borrow_mut_unchecked(flag) == "ok"

\* RefCell::borrow_mut on self.inner: it panics while the cell is borrowed
RefCell_borrow_mut(flag) == IF flag = "unused" THEN "ok" ELSE "panic"

\* the native command id the platform layer gives an item
platform_command_id == [A |-> 1, B |-> 2]
CommandIds == {1, 2}
\* no activation was reported yet
NoCommand == 0

\* the platform layer's bookkeeping: the child a native command id stands for
platform_item_of_command(ch, cmd) ==
    {item \in Range(ch) : platform_command_id[item] = cmd}

PopupHwnds == {"W1"}

PopupRoom == Len(children) < MaxPopupItems
SinkRoom == Len(history) < MaxPopupOps

\* where the thread is once send has returned or has entered the handler
AfterSend(back) == IF MENU_EVENT_HANDLER' \in Handlers THEN "handler" ELSE back

\* a mutating Menu method called from the application or from a handler: it
\* starts with self.inner.borrow_mut()
MenuCall(name, A) ==
    /\ pc \in {"idle", "handler"}
    /\ panicked = "no"
    /\ IF RefCell_borrow_mut(borrow) = "ok"
          THEN A /\ UNCHANGED popupVars
          ELSE /\ panicked' = name
               /\ UNCHANGED <<pc, borrow, command>>
               /\ UNCHANGED menuVars
    /\ UNCHANGED <<sinkVars, handleVars, kindVars, threadVars>>

\* Menu::show_context_menu_for_hwnd, entered: the borrow_mut is taken and held
\* while the platform layer runs the popup
show_context_menu_begin(hwnd) ==
    /\ pc = "idle"
    /\ panicked = "no"
    /\ RefCell_borrow_mut(borrow) = "ok"
    /\ borrow' = "writing"
    /\ pc' = "popup"
    /\ menuRet' = Call("show_context_menu_for_hwnd", "-", -1, hwnd, "-", <<"Bool", "false">>)
    /\ UNCHANGED <<children, hwnds, reference, everDetached, native, panicked, command>>
    /\ UNCHANGED <<sinkVars, handleVars, kindVars, threadVars>>

\* the user selects an item of the popup: the platform layer sends its event
popup_activate(cmd) ==
    /\ pc = "popup"
    /\ panicked = "no"
    /\ menuRet.result = <<"Bool", "false">>
    /\ SinkRoom
    /\ \E item \in platform_item_of_command(children, cmd) :
          /\ send(item)
          /\ menuRet' = [menuRet EXCEPT !.result = <<"Bool", "true">>, !.item = item]
    /\ pc' = AfterSend("popup")
    /\ command' = cmd
    /\ UNCHANGED <<children, hwnds, reference, everDetached, native, borrow, panicked>>
    /\ UNCHANGED <<handleVars, kindVars, threadVars>>

\* the handler returns to the code that sent the event
handler_return ==
    /\ pc = "handler"
    /\ panicked = "no"
    /\ pc' = IF borrow = "writing" THEN "popup" ELSE "idle"
    /\ UNCHANGED <<borrow, panicked, command, sinkVars, menuVars, handleVars, kindVars, threadVars>>

\* Menu::show_context_menu_for_hwnd, returning: the borrow is released
show_context_menu_end ==
    /\ pc = "popup"
    /\ panicked = "no"
    /\ borrow' = "unused"
    /\ pc' = "idle"
    /\ UNCHANGED <<panicked, command, sinkVars, menuVars, handleVars, kindVars, threadVars>>

\* the user selects an item of the menu bar of an attached window
bar_activate(hwnd, cmd) ==
    /\ pc = "idle"
    /\ panicked = "no"
    /\ hwnds[hwnd].state = "Attached"
    /\ SinkRoom
    /\ \E item \in platform_item_of_command(children, cmd) : send(item)
    /\ pc' = AfterSend("idle")
    /\ command' = cmd
    /\ UNCHANGED <<borrow, panicked, menuVars, handleVars, kindVars, threadVars>>

\* the application installs a handler or chooses the queue
install(f) ==
    /\ pc = "idle"
    /\ panicked = "no"
    /\ SinkRoom
    /\ set_event_handler(f)
    /\ UNCHANGED <<menuVars, handleVars, kindVars, popupVars, threadVars>>

PopupNext ==
    \/ \E f \in {"h1", NoHandler} : install(f)
    \/ \E hwnd \in PopupHwnds : show_context_menu_begin(hwnd)
    \/ \E cmd \in CommandIds : popup_activate(cmd)
    \/ handler_return
    \/ show_context_menu_end
    \/ \E hwnd \in PopupHwnds, cmd \in CommandIds : bar_activate(hwnd, cmd)
    \/ \E item \in Items : MenuCall("append", PopupRoom /\ append(item))
    \/ \E item \in Items : MenuCall("prepend", PopupRoom /\ prepend(item))
    \/ \E item \in Items, position \in 0..1 :
          MenuCall("insert", PopupRoom /\ insert(item, position))
    \/ \E item \in Items : MenuCall("remove", remove(item))
    \/ \E hwnd \in PopupHwnds : MenuCall("init_for_hwnd", init_for_hwnd(hwnd))
    \/ \E hwnd \in PopupHwnds : MenuCall("remove_for_hwnd", remove_for_hwnd(hwnd))

----------------------------------------------------------------------------
(* The event sink used from several threads: lib.rs.  A call is two steps: *)
(* the access to the OnceLock, then what the caller does with what it read. *)

\* the threads that call MenuEvent::send
Senders == {"T1", "T2"}

\* a thread between two calls
Idle == [at |-> "idle", handler |-> "-", event |-> "-"]

\* the thread's part of the record
ThreadPc(t) == threads.pc[t]

\* MenuEvent::send, first step: MENU_EVENT_HANDLER.get_or_init(|| None); the
\* thread holds what the cell holds from now on
send_get_or_init(t, event) ==
    /\ ThreadPc(t) = Idle
    /\ Len(threads.sent[t]) < MaxSends
    /\ MENU_EVENT_HANDLER' = OnceLock_get_or_init(MENU_EVENT_HANDLER, NoHandler)
    /\ threads' = [threads EXCEPT
                     !.pc[t] = [at |-> "send", handler |-> MENU_EVENT_HANDLER',
                                event |-> event],
                     !.sent[t] = Append(@, event)]
    /\ UNCHANGED <<MENU_CHANNEL, invoked, received, sinkRet, history>>
    /\ UNCHANGED <<menuVars, handleVars, kindVars, popupVars>>

\* MenuEvent::send, second step: handler(event), or MENU_CHANNEL.0.send(event)
send_deliver(t) ==
    /\ ThreadPc(t).at = "send"
    /\ IF ThreadPc(t).handler \in Handlers
          THEN /\ invoked' = Append(invoked, <<ThreadPc(t).handler, ThreadPc(t).event>>)
               /\ threads' = [threads EXCEPT !.pc[t] = Idle,
                                             !.invokedBy = Append(@, t)]
               /\ UNCHANGED MENU_CHANNEL
          ELSE /\ MENU_CHANNEL' = Append(MENU_CHANNEL, ThreadPc(t).event)
               /\ threads' = [threads EXCEPT !.pc[t] = Idle,
                                             !.queuedBy = Append(@, t)]
               /\ UNCHANGED invoked
    /\ UNCHANGED <<MENU_EVENT_HANDLER, received, sinkRet, history>>
    /\ UNCHANGED <<menuVars, handleVars, kindVars, popupVars>>

\* MenuEvent::set_event_handler, first step: MENU_EVENT_HANDLER.set(..)
set_event_handler_set(f) ==
    /\ threads.setter = "idle"
    /\ Len(threads.sets) < MaxSets
    /\ MENU_EVENT_HANDLER' = OnceLock_set(MENU_EVENT_HANDLER, f)
    /\ threads' = [threads EXCEPT !.setter = "set", !.sets = Append(@, f)]
    /\ UNCHANGED <<MENU_CHANNEL, invoked, received, sinkRet, history>>
    /\ UNCHANGED <<menuVars, handleVars, kindVars, popupVars>>

\* MenuEvent::set_event_handler, second step: the match on MENU_EVENT_HANDLER.get()
set_event_handler_get ==
    /\ threads.setter = "set"
    /\ sinkRet' = set_event_handler_result(MENU_EVENT_HANDLER)
    /\ threads' = [threads EXCEPT !.setter = "idle"]
    /\ UNCHANGED <<MENU_EVENT_HANDLER, MENU_CHANNEL, invoked, received, history>>
    /\ UNCHANGED <<menuVars, handleVars, kindVars, popupVars>>

ThreadInit ==
    threads = [pc |-> [t \in Senders |-> Idle],
               sent |-> [t \in Senders |-> <<>>],
               setter |-> "idle",
               sets |-> <<>>,
               invokedBy |-> <<>>,
               queuedBy |-> <<>>]

ThreadsNext ==
    \/ \E t \in Senders, event \in Items : send_get_or_init(t, event)
    \/ \E t \in Senders : send_deliver(t)
    \/ \E f \in Handlers \cup {NoHandler} : set_event_handler_set(f)
    \/ set_event_handler_get

\* the attachments of two windows, with popups shown on either and dismissed
WindowsNext ==
    \/ \E item \in Items :
          pc = "idle" /\ PopupRoom /\ append(item) /\ UNCHANGED nonMenuVars
    \/ \E hwnd \in Hwnds : pc = "idle" /\ init_for_hwnd(hwnd) /\ UNCHANGED nonMenuVars
    \/ \E hwnd \in Hwnds, theme \in MenuTheme :
          pc = "idle" /\ init_for_hwnd_with_theme(hwnd, theme) /\ UNCHANGED nonMenuVars
    \/ \E hwnd \in Hwnds, theme \in MenuTheme :
          pc = "idle" /\ set_theme_for_hwnd(hwnd, theme) /\ UNCHANGED nonMenuVars
    \/ \E hwnd \in Hwnds : pc = "idle" /\ remove_for_hwnd(hwnd) /\ UNCHANGED nonMenuVars
    \/ \E hwnd \in Hwnds : pc = "idle" /\ hide_for_hwnd(hwnd) /\ UNCHANGED nonMenuVars
    \/ \E hwnd \in Hwnds : pc = "idle" /\ show_for_hwnd(hwnd) /\ UNCHANGED nonMenuVars
    \/ \E hwnd \in Hwnds : show_context_menu_begin(hwnd)
    \/ show_context_menu_end

PopupInit ==
    /\ pc = "idle"
    /\ borrow = "unused"
    /\ panicked = "no"
    /\ command = NoCommand

Init == SinkInit /\ MenuInit /\ HandleInit /\ KindInit /\ PopupInit /\ ThreadInit

\* the initial states of the specification of MenuItemKind
InitKind ==
    SinkInit /\ MenuInit /\ HandleInit /\ KindInitAny /\ PopupInit /\ ThreadInit

\* the event sink on its own
SpecSink == Init /\ [][SinkNext]_vars

\* the Menu's structural operations, with attach and detach
SpecMenu == Init /\ [][MenuNext]_vars

\* the Menu's window attachments, with append and remove
SpecAttach == Init /\ [][AttachNext]_vars

\* a Menu and a second handle
SpecClone == Init /\ [][CloneNext]_vars

\* Menus constructed in sequence
SpecIds == Init /\ [][IdsNext]_vars

\* the Menu's bulk operations
SpecBulk == Init /\ [][BulkNext]_vars

\* popups and activations, with handlers that call back into the Menu
SpecPopup == Init /\ [][PopupNext]_vars

\* several threads sending, one thread setting the handler
SpecThreads == Init /\ [][ThreadsNext]_vars

\* attachments to two windows and popups
SpecWindows == Init /\ [][WindowsNext]_vars

\* the functions of MenuItemKind, on every value
SpecKind == InitKind /\ [][KindNext]_vars

----------------------------------------------------------------------------
(* The event sink: claims *)

\* this step is the sink operation op
SinkStep(op) ==
    /\ Len(history') = Len(history) + 1
    /\ history'[Len(history')].op = op

\* the argument of the sink operation of this step
StepArg == history'[Len(history')].arg

\* a call set_event_handler(Some(h)) has returned
SomeCalled ==
    \E i \in 1..Len(history) :
        history[i].op = "set_event_handler" /\ history[i].arg \in Handlers

\* a call set_event_handler(None) has returned
NoneCalled ==
    \E i \in 1..Len(history) :
        history[i].op = "set_event_handler" /\ history[i].arg = NoHandler

\* the events of the send operations of h, in order
SentEvents(h) ==
    LET sends == SelectSeq(h, LAMBDA r : r.op = "send")
    IN [i \in 1..Len(sends) |-> sends[i].arg]

\* C1: once a call set_event_handler(Some(h)) has returned, whatever came
\* before it, every event sent afterwards invokes a handler and is not pushed
\* onto the channel read by receiver().
C1_HandlerAfterSome ==
    [][(SomeCalled /\ SinkStep("send")) =>
          /\ MENU_CHANNEL' = MENU_CHANNEL
          /\ Len(invoked') = Len(invoked) + 1]_vars

\* C2: after set_event_handler(None) has returned, no event sent is pushed
\* onto the channel read by receiver().
C2_NoQueueAfterNone ==
    [][(NoneCalled /\ SinkStep("send")) => MENU_CHANNEL' = MENU_CHANNEL]_vars

\* C2 as amended: set_event_handler(None) does not switch the sink away from
\* the queue.  After the call the committed target never changes; an event
\* sent afterwards is pushed onto the channel, and no handler runs, unless a
\* handler had been committed before the call, in which case that handler
\* runs and the channel is left alone.
C2_NoneKeepsQueue ==
    [][NoneCalled =>
          /\ MENU_EVENT_HANDLER # Uninit
          /\ MENU_EVENT_HANDLER' = MENU_EVENT_HANDLER
          /\ SinkStep("send") =>
                IF MENU_EVENT_HANDLER \in Handlers
                   THEN /\ MENU_CHANNEL' = MENU_CHANNEL
                        /\ invoked' = Append(invoked, <<MENU_EVENT_HANDLER, StepArg>>)
                   ELSE /\ MENU_CHANNEL' = Append(MENU_CHANNEL, StepArg)
                        /\ invoked' = invoked]_vars

\* set_event_handler(None) was the first commit, and an event sent after it
\* sits on the channel
C2_Witness ==
    /\ Len(history) >= 2
    /\ history[1] = [op |-> "set_event_handler", arg |-> NoHandler]
    /\ history[Len(history)].op = "send"
    /\ MENU_EVENT_HANDLER = NoHandler
    /\ Len(MENU_CHANNEL) >= 1
    /\ MENU_CHANNEL[Len(MENU_CHANNEL)] = history[Len(history)].arg

\* C3: while the sink delivers to the queue, the events received so far
\* followed by the events still buffered are exactly the events sent, in the
\* order sent; try_recv returns the oldest buffered event and removes it, and
\* on an empty queue returns Empty and changes nothing.
C3_QueueFifo ==
    [][/\ MENU_EVENT_HANDLER' \notin Handlers =>
             received' \o MENU_CHANNEL' = SentEvents(history')
       /\ (SinkStep("try_recv") /\ MENU_CHANNEL = <<>>) =>
             /\ sinkRet' = <<"Err", "Empty">>
             /\ MENU_CHANNEL' = MENU_CHANNEL
             /\ received' = received
       /\ (SinkStep("try_recv") /\ MENU_CHANNEL # <<>>) =>
             /\ sinkRet' = <<"Ok", Head(MENU_CHANNEL)>>
             /\ MENU_CHANNEL' = Tail(MENU_CHANNEL)
             /\ received' = Append(received, Head(MENU_CHANNEL))]_vars

\* two different events were sent and received in the order sent, and a
\* further try_recv found the queue empty
C3_Witness ==
    /\ MENU_EVENT_HANDLER \notin Handlers
    /\ received = <<"A", "B">>
    /\ SentEvents(history) = <<"A", "B">>
    /\ MENU_CHANNEL = <<>>
    /\ sinkRet = <<"Err", "Empty">>

----------------------------------------------------------------------------
(* Menu, structural operations: claims *)

\* C4: after any sequence of append, prepend, insert, remove and remove_at,
\* items() equals the reference list driven by the same operations.
C4_ItemsMatchReference == items = reference

\* C5: remove_at(pos) returns None and changes nothing when pos >= len;
\* otherwise it returns the item at pos and items() afterwards is the old
\* sequence with exactly the element at index pos deleted.
C5_RemoveAt ==
    [][menuRet'.op = "remove_at" =>
          IF menuRet'.position >= Len(children)
             THEN /\ menuRet'.result = <<"None">>
                  /\ children' = children
             ELSE /\ menuRet'.result = <<"Some", children[menuRet'.position + 1]>>
                  /\ children' = DeleteAt(children, menuRet'.position)
                  /\ Len(children') = Len(children) - 1]_vars

\* C6: remove(item) of an item that is not a child fails with
\* NotAChildOfThisMenu and leaves the child sequence and every attachment
\* unchanged.
C6_RemoveAbsent ==
    [][(menuRet'.op = "remove" /\ menuRet'.item \notin Range(items)) =>
          /\ menuRet'.result = Err("NotAChildOfThisMenu")
          /\ children' = children
          /\ hwnds' = hwnds]_vars

\* a remove failed on a menu that has children and an attachment
C6_Witness ==
    /\ menuRet.op = "remove"
    /\ menuRet.result = Err("NotAChildOfThisMenu")
    /\ menuRet.item \notin Range(children)
    /\ children # <<>>
    /\ \E h \in Hwnds : hwnds[h].state = "Attached"

\* C7: remove(item) of an item that is a child succeeds, and items()
\* afterwards holds no element with the item's id, also when the item had
\* been added more than once.
C7_RemovePresent ==
    [][(menuRet'.op = "remove" /\ menuRet'.item \in Range(items)) =>
          /\ menuRet'.result = Ok
          /\ menuRet'.item \notin Range(children')]_vars

\* a remove succeeded on a sequence that held the item twice, next to
\* another item, which it left in place
C7_Witness ==
    /\ menuRet.op = "remove"
    /\ menuRet.result = Ok
    /\ menuRet.len = 3
    /\ Len(children) = 1
    /\ menuRet.item \notin Range(children)

\* C8: insert(item, pos) with pos >= len gives the result and the child
\* sequence append(item) gives: Ok, the item last, nothing else changed.
C8_InsertPastEnd ==
    [][(menuRet'.op = "insert" /\ menuRet'.position >= Len(items)) =>
          LET a == platform_add_menu_item(children, menuRet'.item, AddOpAppend)
          IN /\ menuRet'.result = a.result
             /\ menuRet'.result = Ok
             /\ children' = a.children
             /\ children' = Append(children, menuRet'.item)
             /\ hwnds' = hwnds]_vars

\* an insert at a position strictly past the end of a non-empty sequence
\* has put the item last
C8_Witness ==
    /\ menuRet.op = "insert"
    /\ menuRet.result = Ok
    /\ Len(children) >= 2
    /\ menuRet.position >= Len(children)
    /\ children[Len(children)] = menuRet.item
    /\ children[1] # menuRet.item

----------------------------------------------------------------------------
(* Menu, window attachments: claims *)

AttachOps == {"init_for_hwnd", "init_for_hwnd_with_theme"}

ScopedOps == {"set_theme_for_hwnd", "hide_for_hwnd", "show_for_hwnd",
              "is_visible_on_hwnd", "remove_for_hwnd"}

\* C10: each of set_theme_for_hwnd, hide_for_hwnd, show_for_hwnd,
\* is_visible_on_hwnd and remove_for_hwnd, for a window that is not attached,
\* fails with NotInitialized and changes neither the children nor any
\* attachment.
C10_AllFailNotInitialized ==
    [][(menuRet'.op \in ScopedOps /\ hwnds[menuRet'.hwnd].state = "Unattached") =>
          /\ menuRet'.result = Err("NotInitialized")
          /\ children' = children
          /\ hwnds' = hwnds]_vars

\* C10 as amended: for a window that is not attached, set_theme_for_hwnd,
\* hide_for_hwnd, show_for_hwnd and remove_for_hwnd fail with NotInitialized;
\* is_visible_on_hwnd reports no error, it returns a plain bool; none of the
\* five changes the children or any attachment.
C10_UnattachedOps ==
    [][(menuRet'.op \in ScopedOps /\ hwnds[menuRet'.hwnd].state = "Unattached") =>
          /\ IF menuRet'.op = "is_visible_on_hwnd"
                THEN menuRet'.result[1] = "Bool"
                ELSE menuRet'.result = Err("NotInitialized")
          /\ children' = children
          /\ hwnds' = hwnds]_vars

\* hide_for_hwnd failed for a window that had been attached and detached,
\* on a menu with children and with another window attached
C10_Witness ==
    /\ menuRet.op = "hide_for_hwnd"
    /\ menuRet.result = Err("NotInitialized")
    /\ menuRet.hwnd \in everDetached
    /\ hwnds[menuRet.hwnd].state = "Unattached"
    /\ children # <<>>
    /\ \E h \in Hwnds : hwnds[h].state = "Attached"

----------------------------------------------------------------------------
(* The event sink: callback delivery and the latch *)

\* the events the handlers were invoked with, in order of invocation
InvokedEvents == [i \in 1..Len(invoked) |-> invoked[i][2]]

\* what set_event_handler can return: None, or Some(Some(handler))
SetResults == {<<"None">>} \cup {<<"Some", <<"Some", h>>>> : h \in Handlers}

\* C13: when a handler is the committed sink, each send invokes that handler
\* exactly once within the send, the handler has seen exactly the events
\* sent, in the order sent, and nothing is buffered on the channel.
C13_CallbackDelivery ==
    [][/\ (MENU_EVENT_HANDLER \in Handlers /\ SinkStep("send")) =>
             /\ invoked' = Append(invoked, <<MENU_EVENT_HANDLER, StepArg>>)
             /\ MENU_CHANNEL' = MENU_CHANNEL
             /\ sinkRet' = <<"unit">>
       /\ MENU_EVENT_HANDLER' \in Handlers =>
             /\ InvokedEvents' = SentEvents(history')
             /\ \A i \in 1..Len(invoked') : invoked'[i][1] = MENU_EVENT_HANDLER'
             /\ MENU_CHANNEL' = <<>>
             /\ received' = <<>>]_vars

\* handler h1 was committed and then invoked with A and with B, in that order
C13_Witness ==
    /\ MENU_EVENT_HANDLER = "h1"
    /\ invoked = << <<"h1", "A">>, <<"h1", "B">> >>
    /\ SentEvents(history) = <<"A", "B">>
    /\ MENU_CHANNEL = <<>>

----------------------------------------------------------------------------
(* Menu handles and ids: claims *)

OtherHandle(h) == IF h = "m1" THEN "m2" ELSE "m1"

C17_IdsDistinctAndFixed ==
    [][ /\ \A i, j \in 1..Len(created') :
              (i < j /\ created'[i].auto /\ created'[j].auto)
                 => created'[i].id # created'[j].id
        /\ \A i \in 1..Len(created) : created'[i] = created[i]
        /\ Menu_id("m1")' = Menu_id("m1")
        /\ m2.how # "none" => Menu_id("m2")' = Menu_id("m2") ]_vars

\* C17 witness: three Menus were constructed without an id, and the first one
\* has since been given a child and an attachment
C17_Witness ==
    /\ Len(created) = MaxMenus
    /\ \A i \in 1..Len(created) : created[i].auto
    /\ children # <<>>
    /\ hwnds["W1"].state = "Attached"
    /\ menuRet.op = "append"

----------------------------------------------------------------------------
(* Menu, the native mirror: claims *)

StructuralOps == {"append", "prepend", "insert", "remove", "remove_at"}

\* C15: in a state whose last operation is a structural one, the native menu
\* of every attached window lists exactly items(), in the same order.
C15_NativeMatchesItems ==
    menuRet.op \in StructuralOps =>
       \A h \in Hwnds : hwnds[h].state = "Attached" => native[h] = items

\* C15 witness: with both windows attached and three children, remove_at took
\* an item out and both native menus list what remains
C15_Witness ==
    /\ \A h \in Hwnds : hwnds[h].state = "Attached"
    /\ menuRet.op = "remove_at" /\ menuRet.len = 3
    /\ items = <<"B">>
    /\ \A h \in Hwnds : native[h] = <<"B">>

----------------------------------------------------------------------------
(* Menu, bulk operations: claims *)

\* C19: a bulk operation on children s with list xs keeps xs in the caller's
\* order: insert_items at p <= Len(s) gives s[0..p) ++ xs ++ s[p..], and at
\* p > Len(s) gives s ++ xs; prepend_items gives xs ++ s; append_items gives
\* s ++ xs.
C19_BulkKeepsOrder ==
    [][ LET s == items
            xs == menuRet'.list
            p == menuRet'.position
        IN /\ menuRet'.op = "insert_items" =>
                 IF p <= Len(s)
                    THEN items' = SubSeq(s, 1, p) \o xs \o SubSeq(s, p + 1, Len(s))
                    ELSE items' = s \o xs
           /\ menuRet'.op = "prepend_items" => items' = xs \o s
           /\ menuRet'.op = "append_items" => items' = s \o xs ]_vars

\* C19 witness: insert_items(<<B, A>>, 1) on <<A, B>> gave <<A, B, A, B>>
C19_Witness ==
    /\ menuRet.op = "insert_items"
    /\ menuRet.list = <<"B", "A">>
    /\ menuRet.position = 1
    /\ menuRet.len = 2
    /\ items = <<"A", "B", "A", "B">>

\* C19 witness: prepend_items(<<A, B>>) on <<B>> gave <<A, B, B>>, where two
\* prepend calls would have given <<B, A, B>>
C19_WitnessPrepend ==
    /\ menuRet.op = "prepend_items"
    /\ menuRet.list = <<"A", "B">>
    /\ menuRet.len = 1
    /\ items = <<"A", "B", "B">>

\* C19 witness: insert_items past the end, <<B, A>> at 4 on <<A>>, gave <<A, B, A>>
C19_WitnessPastEnd ==
    /\ menuRet.op = "insert_items"
    /\ menuRet.list = <<"B", "A">>
    /\ menuRet.position = MaxPos
    /\ menuRet.len = 1
    /\ items = <<"A", "B", "A">>

----------------------------------------------------------------------------
(* MenuItemKind: claims *)

\* the safe and the unchecked downcast to variant X
SafeCast(X, k) ==
    CASE X = "MenuItem" -> as_menuitem(k)
      [] X = "Submenu" -> as_submenu(k)
      [] X = "Predefined" -> as_predefined_menuitem(k)
      [] X = "Check" -> as_check_menuitem(k)
      [] X = "Icon" -> as_icon_menuitem(k)

UncheckedCast(X, k) ==
    CASE X = "MenuItem" -> as_menuitem_unchecked(k)
      [] X = "Submenu" -> as_submenu_unchecked(k)
      [] X = "Predefined" -> as_predefined_menuitem_unchecked(k)
      [] X = "Check" -> as_check_menuitem_unchecked(k)
      [] X = "Icon" -> as_icon_menuitem_unchecked(k)

SafeName ==
    [MenuItem |-> "as_menuitem", Submenu |-> "as_submenu",
     Predefined |-> "as_predefined_menuitem", Check |-> "as_check_menuitem",
     Icon |-> "as_icon_menuitem"]

UncheckedName ==
    [MenuItem |-> "as_menuitem_unchecked", Submenu |-> "as_submenu_unchecked",
     Predefined |-> "as_predefined_menuitem_unchecked",
     Check |-> "as_check_menuitem_unchecked", Icon |-> "as_icon_menuitem_unchecked"]

\* C16: for the value k at hand and each variant X, the safe downcast gives the
\* wrapped item if k is of variant X and None otherwise, so exactly one of the
\* five is non-empty; the unchecked downcast gives the same item if k is of
\* variant X and panics otherwise; and the result of the downcast that was
\* applied last is the one these rules give.
C16_Downcasts ==
    /\ \A X \in Variants :
          /\ SafeCast(X, kindIn) = IF kindIn.kind = X THEN <<"Some", kindIn.item>>
                                                     ELSE <<"None">>
          /\ IF kindIn.kind = X
                THEN UncheckedCast(X, kindIn) = <<"Ref", kindIn.item>>
                ELSE UncheckedCast(X, kindIn)[1] = "panic"
          /\ castRet.fn = SafeName[X] =>
                castRet.result = IF kindIn.kind = X THEN <<"Some", kindIn.item>>
                                                    ELSE <<"None">>
          /\ castRet.fn = UncheckedName[X] =>
                IF kindIn.kind = X THEN castRet.result = <<"Ref", kindIn.item>>
                                   ELSE castRet.result[1] = "panic"
    /\ Cardinality({X \in Variants : SafeCast(X, kindIn) # <<"None">>}) = 1

\* C16 witness: the unchecked downcast to Submenu of a Check item panicked
C16_Witness ==
    /\ kindIn = [kind |-> "Check", item |-> "B"]
    /\ castRet.fn = "as_submenu_unchecked"
    /\ castRet.result = <<"panic", "Not a Submenu">>

\* C16 witness: the safe downcast to Submenu of a Submenu gave the item
C16_WitnessSome ==
    /\ kindIn = [kind |-> "Submenu", item |-> "B"]
    /\ castRet.fn = "as_submenu"
    /\ castRet.result = <<"Some", "B">>

----------------------------------------------------------------------------
(* Popups and activations: claims *)

\* the events handed to the application so far: to a handler, or to the queue
Delivered == InvokedEvents \o received \o MENU_CHANNEL

CountOf(e) == Cardinality({i \in 1..Len(Delivered) : Delivered[i] = e})

\* C12: with children A and B and window W1 attached, a step in which the
\* native layer reports the command id of A from the menu bar hands exactly
\* one more event to the application, and that event carries A: the number of
\* events of B is unchanged.
C12_EndToEnd ==
    [][ ( /\ pc = "idle"
          /\ Range(children) = {"A", "B"}
          /\ hwnds["W1"].state = "Attached"
          /\ SinkStep("send")
          /\ command' = platform_command_id["A"] )
        => /\ StepArg = "A"
           /\ Len(Delivered') = Len(Delivered) + 1
           /\ CountOf("A")' = CountOf("A") + 1
           /\ CountOf("B")' = CountOf("B") ]_vars

\* C12 witness: <<A, B>> attached to W1, handler h1 installed, A activated from
\* the menu bar: h1 was invoked once, with A, and nothing was queued
C12_Witness ==
    /\ children = <<"A", "B">>
    /\ hwnds["W1"].state = "Attached"
    /\ borrow = "unused"
    /\ pc = "handler"
    /\ command = platform_command_id["A"]
    /\ history = <<[op |-> "set_event_handler", arg |-> "h1"], [op |-> "send", arg |-> "A"]>>
    /\ invoked = <<<<"h1", "A">>>>
    /\ MENU_CHANNEL = <<>>

\* C12 witness: the same without a handler: A alone is in the queue
C12_WitnessQueue ==
    /\ children = <<"A", "B">>
    /\ hwnds["W1"].state = "Attached"
    /\ pc = "idle"
    /\ command = platform_command_id["A"]
    /\ history = <<[op |-> "send", arg |-> "A"]>>
    /\ invoked = <<>>
    /\ MENU_CHANNEL = <<"A">>

NestedOps == {"append", "prepend", "insert", "remove", "init_for_hwnd", "remove_for_hwnd"}

\* C18: while show_context_menu_for_hwnd holds the exclusive borrow and a
\* handler runs, a step is either the handler's return or a nested mutating
\* call that panics; it leaves the children, the attachments and the record of
\* the last completed call as they were.  A panic happens only under a held
\* borrow, and nothing runs after it.
C18_ReentrantAborts ==
    [][ /\ (pc = "handler" /\ borrow = "writing") =>
              /\ children' = children
              /\ hwnds' = hwnds
              /\ native' = native
              /\ menuRet' = menuRet
              /\ \/ pc' = "popup" /\ panicked' = "no"
                 \/ pc' = "handler" /\ panicked' \in NestedOps
        /\ panicked' # "no" => borrow = "writing" /\ pc = "handler"
        /\ panicked = "no" ]_vars

\* C18 witness: inside the popup of a menu holding <<A>>, the handler called
\* append, which panicked; the children are still <<A>>
C18_Witness ==
    /\ pc = "handler"
    /\ borrow = "writing"
    /\ panicked = "append"
    /\ menuRet.op = "show_context_menu_for_hwnd"
    /\ children = <<"A">>
    /\ invoked = <<<<"h1", "A">>>>

\* C18 witness: outside a popup the same call from a handler runs
C18_WitnessNoBorrow ==
    /\ pc = "handler"
    /\ borrow = "unused"
    /\ panicked = "no"
    /\ menuRet.op = "append"
    /\ invoked = <<<<"h1", "A">>>>
    /\ children = <<"A", "B">>

----------------------------------------------------------------------------
(* The event sink: the result of set_event_handler *)

\* C21: whatever its argument, a call of set_event_handler returns
\* Some(Some(handler)) for the handler the cell holds after the call, and None
\* if the cell then holds "no handler"; so the argument None returns a handler
\* once one is committed, and the argument Some(h) returns None once "no
\* handler" is committed.
C21_ResultFromCommitted ==
    [][ SinkStep("set_event_handler") =>
           /\ MENU_EVENT_HANDLER' # Uninit
           /\ IF MENU_EVENT_HANDLER' \in Handlers
                 THEN sinkRet' = <<"Some", <<"Some", MENU_EVENT_HANDLER'>>>>
                 ELSE sinkRet' = <<"None">>
           /\ (StepArg = NoHandler /\ MENU_EVENT_HANDLER \in Handlers) =>
                 sinkRet' = <<"Some", <<"Some", MENU_EVENT_HANDLER>>>>
           /\ (StepArg \in Handlers /\ MENU_EVENT_HANDLER = NoHandler) =>
                 sinkRet' = <<"None">> ]_vars

\* C21 witness: set_event_handler(None) after h1 was committed returned h1
C21_Witness ==
    /\ history = <<[op |-> "set_event_handler", arg |-> "h1"],
                   [op |-> "set_event_handler", arg |-> NoHandler]>>
    /\ MENU_EVENT_HANDLER = "h1"
    /\ sinkRet = <<"Some", <<"Some", "h1">>>>

\* C21 witness: set_event_handler(Some(h1)) after a send committed "no handler"
\* returned None
C21_WitnessNone ==
    /\ history = <<[op |-> "send", arg |-> "A"],
                   [op |-> "set_event_handler", arg |-> "h1"]>>
    /\ MENU_EVENT_HANDLER = NoHandler
    /\ sinkRet = <<"None">>

----------------------------------------------------------------------------
(* Menu, independence of the attachments: claims *)

WindowOps ==
    {"init_for_hwnd", "init_for_hwnd_with_theme", "remove_for_hwnd",
     "set_theme_for_hwnd", "hide_for_hwnd", "show_for_hwnd"}

\* C23: a step of init_for_hwnd, remove_for_hwnd, set_theme_for_hwnd,
\* hide_for_hwnd or show_for_hwnd for one window, whatever its result, leaves
\* the attachment and the native menu of every other window and items() as
\* they were; a step that enters or leaves show_context_menu_for_hwnd leaves
\* all attachments and items() as they were, and the popup can be entered for
\* any window, attached or not.
C23_AttachmentsIndependent ==
    [][ /\ (pc = "idle" /\ pc' = "idle" /\ menuRet'.op \in WindowOps) =>
              /\ \A h \in Hwnds \ {menuRet'.hwnd} :
                    hwnds'[h] = hwnds[h] /\ native'[h] = native[h]
              /\ items' = items
        /\ pc' # pc =>
              /\ hwnds' = hwnds
              /\ native' = native
              /\ items' = items
        /\ pc = "idle" => \A h \in Hwnds : ENABLED show_context_menu_begin(h) ]_vars

\* C23 witness: W2 is attached, hidden and themed, the menu has a child, and
\* detaching W1 has succeeded
C23_Witness ==
    /\ menuRet.op = "remove_for_hwnd" /\ menuRet.hwnd = "W1" /\ menuRet.result = Ok
    /\ hwnds["W1"] = Unattached
    /\ hwnds["W2"] = Attachment("Dark", "false")
    /\ native["W2"] = items
    /\ items # <<>>

\* C23 witness: with W2 attached, hide_for_hwnd for the unattached W1 failed
C23_WitnessFailed ==
    /\ menuRet.op = "hide_for_hwnd" /\ menuRet.hwnd = "W1"
    /\ menuRet.result = Err("NotInitialized")
    /\ hwnds["W2"] = Attachment("Dark", "true")
    /\ items # <<>>

\* C23 witness: a popup was shown for W1 and dismissed while no window was
\* attached
C23_WitnessPopup ==
    /\ menuRet.op = "show_context_menu_for_hwnd" /\ menuRet.hwnd = "W1"
    /\ pc = "idle"
    /\ \A h \in Hwnds : hwnds[h] = Unattached
    /\ everDetached = {}
    /\ items # <<>>

----------------------------------------------------------------------------
(* The event sink used from several threads: claims *)

\* the entries of seq that the thread t put there, in order; by[i] is the
\* thread that put seq[i]
FromThread(seq, by, t) ==
    LET tagged == [i \in 1..Len(seq) |-> <<by[i], seq[i]>>]
        own == SelectSeq(tagged, LAMBDA p : p[1] = t)
    IN [i \in 1..Len(own) |-> own[i][2]]

\* the events of the calls of send that the thread t has completed
CompletedSends(t) ==
    IF ThreadPc(t).at = "send"
       THEN SubSeq(threads.sent[t], 1, Len(threads.sent[t]) - 1)
       ELSE threads.sent[t]

C22_WitnessQueue ==
    /\ MENU_EVENT_HANDLER = NoHandler
    /\ threads.sets = <<"h1">>
    /\ threads.setter = "idle"
    /\ sinkRet = <<"None">>
    /\ threads.sent = [T1 |-> <<"A", "B">>, T2 |-> <<"B", "A">>]
    /\ threads.queuedBy = <<"T1", "T2", "T2", "T1">>
    /\ MENU_CHANNEL = <<"A", "B", "A", "B">>
    /\ invoked = <<>>

====
